---------------------------- MODULE Spec2Model ----------------------------
(***************************************************************************)
(* KHR_debug emulation of gl-rs' DebugStructGenerator: the message-control *)
(* rules, the insertion pipeline, the one-slot message log, the error      *)
(* query override and the per-call error interceptor                       *)
(* (src/gl_generator/generators/debug_output/{header,impl}.rs).            *)
(*                                                                         *)
(* GLenum / GLuint values are modelled as distinct tokens (strings): the   *)
(* code only ever compares them for equality.  GLsizei values (lengths,    *)
(* counts, buffer sizes) are integers.  Option<T> is a sequence of length  *)
(* at most one: None is << >> and Some(x) is << x >>.                      *)
(***************************************************************************)
EXTENDS Integers, Sequences, FiniteSets, TLC

VARIABLES
    enabled,              \* DebugOutputState.enabled
    last_error,           \* DebugOutputState.last_error
    last_debug_message,   \* DebugOutputState.last_debug_message (the log slot)
    debug_group_number,   \* DebugOutputState.debug_group_number
    rules,                \* DebugOutputState.rules
    callback,             \* DebugOutputState.callback
    user_param,           \* DebugOutputState.user_param
    fnptrs,               \* the FnPtr / OverridableFnPtr fields of the struct
    fault,                \* "none", or how the process died ("panic", "segfault")
    synthesized,          \* the number of insert_api_error calls of the last call
    last_call,            \* the entry point called last, its arguments, the log
                          \* slot as it found it (found) and its result
    dispatched            \* the callback invocations made by the last call, in order

vars == << enabled, last_error, last_debug_message, debug_group_number, rules,
           callback, user_param, fnptrs, fault, synthesized, last_call, dispatched >>

None == << >>
Some(x) == << x >>

(***************************************************************************)
(* Enumerants.                                                             *)
(***************************************************************************)
NO_ERROR == "NO_ERROR"
INVALID_ENUM == "INVALID_ENUM"
INVALID_VALUE == "INVALID_VALUE"
INVALID_OPERATION == "INVALID_OPERATION"
INVALID_FRAMEBUFFER_OPERATION == "INVALID_FRAMEBUFFER_OPERATION"
OUT_OF_MEMORY == "OUT_OF_MEMORY"
STACK_OVERFLOW == "STACK_OVERFLOW"

DONT_CARE == "DONT_CARE"

DEBUG_SOURCE_API == "DEBUG_SOURCE_API"
DEBUG_SOURCE_SHADER_COMPILER == "DEBUG_SOURCE_SHADER_COMPILER"
DEBUG_SOURCE_WINDOW_SYSTEM == "DEBUG_SOURCE_WINDOW_SYSTEM"
DEBUG_SOURCE_THIRD_PARTY == "DEBUG_SOURCE_THIRD_PARTY"
DEBUG_SOURCE_APPLICATION == "DEBUG_SOURCE_APPLICATION"
DEBUG_SOURCE_OTHER == "DEBUG_SOURCE_OTHER"

DEBUG_TYPE_ERROR == "DEBUG_TYPE_ERROR"
DEBUG_TYPE_DEPRECATED_BEHAVIOR == "DEBUG_TYPE_DEPRECATED_BEHAVIOR"
DEBUG_TYPE_UNDEFINED_BEHAVIOR == "DEBUG_TYPE_UNDEFINED_BEHAVIOR"
DEBUG_TYPE_PERFORMANCE == "DEBUG_TYPE_PERFORMANCE"
DEBUG_TYPE_PORTABILITY == "DEBUG_TYPE_PORTABILITY"
DEBUG_TYPE_OTHER == "DEBUG_TYPE_OTHER"
DEBUG_TYPE_MARKER == "DEBUG_TYPE_MARKER"
DEBUG_TYPE_PUSH_GROUP == "DEBUG_TYPE_PUSH_GROUP"
DEBUG_TYPE_POP_GROUP == "DEBUG_TYPE_POP_GROUP"

DEBUG_SEVERITY_HIGH == "DEBUG_SEVERITY_HIGH"
DEBUG_SEVERITY_MEDIUM == "DEBUG_SEVERITY_MEDIUM"
DEBUG_SEVERITY_LOW == "DEBUG_SEVERITY_LOW"
DEBUG_SEVERITY_NOTIFICATION == "DEBUG_SEVERITY_NOTIFICATION"

\* GLboolean: GL_FALSE and GL_TRUE
GLbooleans == { 0, 1 }

KHR_DEBUG_EMULATOR_MAX_DEBUG_MESSAGE_LENGTH == 256

(***************************************************************************)
(* header.rs: validity predicates and the rule matcher.                    *)
(***************************************************************************)
is_valid_severity(severity) ==
    severity \in { DEBUG_SEVERITY_HIGH, DEBUG_SEVERITY_MEDIUM,
                   DEBUG_SEVERITY_LOW, DEBUG_SEVERITY_NOTIFICATION }

\* is_valid_type taking the wildcard for a type
is_valid_type_or_dont_care(ty) ==
    ty \in { DEBUG_TYPE_ERROR, DEBUG_TYPE_DEPRECATED_BEHAVIOR,
             DEBUG_TYPE_UNDEFINED_BEHAVIOR, DEBUG_TYPE_PERFORMANCE,
             DEBUG_TYPE_PORTABILITY, DEBUG_TYPE_OTHER, DEBUG_TYPE_MARKER,
             DEBUG_TYPE_PUSH_GROUP, DEBUG_TYPE_POP_GROUP, DONT_CARE }

is_valid_type(ty) ==
    ty \in { DEBUG_TYPE_ERROR, DEBUG_TYPE_DEPRECATED_BEHAVIOR,
             DEBUG_TYPE_UNDEFINED_BEHAVIOR, DEBUG_TYPE_PERFORMANCE,
             DEBUG_TYPE_PORTABILITY, DEBUG_TYPE_OTHER, DEBUG_TYPE_MARKER,
             DEBUG_TYPE_PUSH_GROUP, DEBUG_TYPE_POP_GROUP }

is_valid_source(source) ==
    source \in { DEBUG_SOURCE_API, DEBUG_SOURCE_SHADER_COMPILER,
                 DEBUG_SOURCE_WINDOW_SYSTEM, DEBUG_SOURCE_THIRD_PARTY,
                 DEBUG_SOURCE_APPLICATION, DEBUG_SOURCE_OTHER }

\* rule.ids.iter().any(|rule_id| *rule_id == id)
ids_any(ids, id) == \E k \in 1..Len(ids) : ids[k] = id

\* rule_applies without the severity test
rule_applies_any_severity(rule, source, ty, id, severity) ==
    IF rule.ids # << >> /\ ~ids_any(rule.ids, id) THEN FALSE
    ELSE IF rule.source # DONT_CARE /\ rule.source # source THEN FALSE
    ELSE IF rule.ty # DONT_CARE /\ rule.ty # ty THEN FALSE
    ELSE TRUE

rule_applies(rule, source, ty, id, severity) ==
    IF rule.ids # << >> /\ ~ids_any(rule.ids, id) THEN FALSE
    ELSE IF rule.source # DONT_CARE /\ rule.source # source THEN FALSE
    ELSE IF rule.ty # DONT_CARE /\ rule.ty # ty THEN FALSE
    ELSE IF rule.severity # DONT_CARE /\ rule.severity # severity THEN FALSE
    ELSE TRUE

\* get_error_string's match on the error code
error_part(error_code) ==
    CASE error_code = INVALID_ENUM -> "invalid enum"
      [] error_code = INVALID_VALUE -> "invalid value"
      [] error_code = INVALID_OPERATION -> "invalid operation"
      [] error_code = INVALID_FRAMEBUFFER_OPERATION -> "invalid framebuffer operation"
      [] error_code = OUT_OF_MEMORY -> "out of memory"
      [] error_code = NO_ERROR -> "no error"
      [] OTHER -> "unknown error"

(***************************************************************************)
(* Message texts.  A buffer is [text, len, kind]: len is the number of     *)
(* chars before the terminator (or of the Rust str), and kind says who     *)
(* owns the bytes: "cstr" is the caller's 0-terminated buffer, "literal" a *)
(* 'static Rust str (not 0-terminated), "temp" a heap String that is       *)
(* dropped when check_error returns (not 0-terminated).                    *)
(***************************************************************************)
Literal(text) == [text |-> text, len |-> Len(text), kind |-> "literal"]

\* get_error_string with a paragraph of advice after the place
get_error_string_verbose(error_code, name) ==
    LET s == error_part(error_code) \o " in " \o name
    IN  [text |-> s \o ": see the KHR_debug specification",
         len |-> Len(s) + KHR_DEBUG_EMULATOR_MAX_DEBUG_MESSAGE_LENGTH, kind |-> "temp"]

\* format!("{error} in {place}", ...): a temporary String
get_error_string(error_code, name) ==
    LET s == error_part(error_code) \o " in " \o name
    IN  [text |-> s, len |-> Len(s), kind |-> "temp"]

MSG_INSERT_SOURCE_RESTRICTED ==
    Literal("invalid enum in glDebugMessageInsert: source has to be GL_DEBUG_SOURCE_APPLICATION or GL_DEBUG_SOURCE_THIRD_PARTY")
MSG_SEVERITY_INVALID == Literal("invalid enum in glDebugMessageInsert: severity is invalid")
MSG_TYPE_INVALID == Literal("invalid enum in glDebugMessageInsert: type is invalid")
MSG_SOURCE_INVALID == Literal("invalid enum in glDebugMessageInsert: source is invalid")
MSG_TOO_LONG == Literal("invalid value in glDebugMessageInsert: message is too long")
MSG_CONTROL_INVALID ==
    Literal("invalid operation in glDebugMessageControl: if an ID is specified, source and type have to be specified as well but severity has to be GL_DONT_CARE")
MSG_LOG_BUFSIZE == Literal("invalid value in glGetDebugMessageLog: bufsize < 0 and messageLog != NULL")

(***************************************************************************)
(* impl.rs.  Every function is an operator from the DebugOutputState it    *)
(* finds (a record st, with the callback invocations made so far in        *)
(* st.calls, the number of calls of the native glGetError made so far in   *)
(* st.native_queries and the number of calls of insert_api_error made so   *)
(* far in st.api_errors) to the state it leaves.                           *)
(***************************************************************************)

\* libc::strlen of a 0-terminated buffer
strlen(buf) == buf.len

RECURSIVE rules_rev_scan(_, _, _, _, _, _)
\* the loop over rules.iter().rev(), at index k, and the default behaviour
rules_rev_scan(rs, k, source, ty, id, severity) ==
    IF k = 0 THEN severity # DEBUG_SEVERITY_LOW
    ELSE IF rule_applies(rs[k], source, ty, id, severity) THEN rs[k].enabled = 1
    ELSE rules_rev_scan(rs, k - 1, source, ty, id, severity)

RECURSIVE rules_fwd_scan(_, _, _, _, _, _)
\* the same loop without .rev(): from the oldest rule to the newest
rules_fwd_scan(rs, k, source, ty, id, severity) ==
    IF k > Len(rs) THEN severity # DEBUG_SEVERITY_LOW
    ELSE IF rule_applies(rs[k], source, ty, id, severity) THEN rs[k].enabled = 1
    ELSE rules_fwd_scan(rs, k + 1, source, ty, id, severity)

should_message_get_processed_oldest_first(rs, source, ty, id, severity) ==
    rules_fwd_scan(rs, 1, source, ty, id, severity)

\* the same function without the default for DEBUG_SEVERITY_LOW
should_message_get_processed_no_default(rs, source, ty, id, severity) ==
    rules_rev_scan(rs, Len(rs), source, ty, id, severity)
    \/ \A k \in 1..Len(rs) : ~rule_applies(rs[k], source, ty, id, severity)

should_message_get_processed(rs, source, ty, id, severity) ==
    rules_rev_scan(rs, Len(rs), source, ty, id, severity)

\* the same match storing the message in the log in both arms
dispatch_and_store(st, source, ty, id, severity, length, proper_length, buf) ==
    LET stored == [st EXCEPT !.last_debug_message = Some(
                       [source |-> source, ty |-> ty, id |-> id, severity |-> severity,
                        length |-> length, buf |-> buf])]
    IN  IF st.callback # None
        THEN [stored EXCEPT !.calls = Append(@,
                  [callback |-> st.callback[1], source |-> source, ty |-> ty,
                   id |-> id, severity |-> severity, length |-> proper_length,
                   buf |-> buf, user_param |-> st.user_param])]
        ELSE stored

\* the same match storing the message only in an empty log slot
dispatch_or_store_if_empty(st, source, ty, id, severity, length, proper_length, buf) ==
    IF st.callback # None
    THEN [st EXCEPT !.calls = Append(@,
              [callback |-> st.callback[1], source |-> source, ty |-> ty,
               id |-> id, severity |-> severity, length |-> proper_length,
               buf |-> buf, user_param |-> st.user_param])]
    ELSE IF st.last_debug_message # None THEN st
    ELSE [st EXCEPT !.last_debug_message = Some(
              [source |-> source, ty |-> ty, id |-> id, severity |-> severity,
               length |-> length, buf |-> buf])]

\* the match on state.callback: invoke the callback, or store in the log
dispatch_or_store(st, source, ty, id, severity, length, proper_length, buf) ==
    IF st.callback # None
    THEN [st EXCEPT !.calls = Append(@,
              [callback |-> st.callback[1], source |-> source, ty |-> ty,
               id |-> id, severity |-> severity, length |-> proper_length,
               buf |-> buf, user_param |-> st.user_param])]
    ELSE [st EXCEPT !.last_debug_message = Some(
              [source |-> source, ty |-> ty, id |-> id, severity |-> severity,
               length |-> length, buf |-> buf])]

RECURSIVE debug_message_insert_internal(_, _, _, _, _, _, _)
RECURSIVE insert_api_error(_, _, _)

\* debug_message_insert_internal with the length test one too high
debug_message_insert_internal_longer(st, source, ty, id, severity, length, buf) ==
    IF ~st.enabled THEN st
    ELSE IF ~is_valid_severity(severity)
        THEN insert_api_error(st, INVALID_ENUM, MSG_SEVERITY_INVALID)
    ELSE IF ~is_valid_type(ty)
        THEN insert_api_error(st, INVALID_ENUM, MSG_TYPE_INVALID)
    ELSE IF ~is_valid_source(source)
        THEN insert_api_error(st, INVALID_ENUM, MSG_SOURCE_INVALID)
    ELSE LET proper_length == IF length < 0 THEN strlen(buf) ELSE length
         IN  IF proper_length > KHR_DEBUG_EMULATOR_MAX_DEBUG_MESSAGE_LENGTH + 1
                 THEN insert_api_error(st, INVALID_VALUE, MSG_TOO_LONG)
             ELSE IF ~should_message_get_processed(st.rules, source, ty, id, severity)
                 THEN st
             ELSE dispatch_or_store(st, source, ty, id, severity, length,
                                    proper_length, buf)

\* insert_api_error recording the error only when its message gets processed
insert_api_error_if_delivered(st, ty, message) ==
    debug_message_insert_internal(
        IF should_message_get_processed(st.rules, DEBUG_SOURCE_API, DEBUG_TYPE_ERROR,
                                        ty, DEBUG_SEVERITY_HIGH)
        THEN [st EXCEPT !.last_error = ty, !.api_errors = @ + 1]
        ELSE [st EXCEPT !.api_errors = @ + 1],
        DEBUG_SOURCE_API, DEBUG_TYPE_ERROR, ty, DEBUG_SEVERITY_HIGH,
        message.len, message)

insert_api_error(st, ty, message) ==
    debug_message_insert_internal([st EXCEPT !.last_error = ty, !.api_errors = @ + 1],
        DEBUG_SOURCE_API, DEBUG_TYPE_ERROR, ty, DEBUG_SEVERITY_HIGH,
        message.len, message)

\* debug_message_insert_internal validating the type before the severity
debug_message_insert_internal_type_first(st, source, ty, id, severity, length, buf) ==
    IF ~st.enabled THEN st
    ELSE IF ~is_valid_type(ty)
        THEN insert_api_error(st, INVALID_ENUM, MSG_TYPE_INVALID)
    ELSE IF ~is_valid_severity(severity)
        THEN insert_api_error(st, INVALID_ENUM, MSG_SEVERITY_INVALID)
    ELSE IF ~is_valid_source(source)
        THEN insert_api_error(st, INVALID_ENUM, MSG_SOURCE_INVALID)
    ELSE LET proper_length == IF length < 0 THEN strlen(buf) ELSE length
         IN  IF proper_length > KHR_DEBUG_EMULATOR_MAX_DEBUG_MESSAGE_LENGTH
                 THEN insert_api_error(st, INVALID_VALUE, MSG_TOO_LONG)
             ELSE IF ~should_message_get_processed(st.rules, source, ty, id, severity)
                 THEN st
             ELSE dispatch_or_store(st, source, ty, id, severity, length,
                                    proper_length, buf)

\* debug_message_insert_internal keeping a message the rules mute in the log
debug_message_insert_internal_queueing(st, source, ty, id, severity, length, buf) ==
    IF ~st.enabled THEN st
    ELSE IF ~is_valid_severity(severity)
        THEN insert_api_error(st, INVALID_ENUM, MSG_SEVERITY_INVALID)
    ELSE IF ~is_valid_type(ty)
        THEN insert_api_error(st, INVALID_ENUM, MSG_TYPE_INVALID)
    ELSE IF ~is_valid_source(source)
        THEN insert_api_error(st, INVALID_ENUM, MSG_SOURCE_INVALID)
    ELSE LET proper_length == IF length < 0 THEN strlen(buf) ELSE length
         IN  IF proper_length > KHR_DEBUG_EMULATOR_MAX_DEBUG_MESSAGE_LENGTH
                 THEN insert_api_error(st, INVALID_VALUE, MSG_TOO_LONG)
             ELSE IF ~should_message_get_processed(st.rules, source, ty, id, severity)
                 THEN [st EXCEPT !.last_debug_message = Some(
                           [source |-> source, ty |-> ty, id |-> id,
                            severity |-> severity, length |-> length, buf |-> buf])]
             ELSE dispatch_or_store(st, source, ty, id, severity, length,
                                    proper_length, buf)

debug_message_insert_internal(st, source, ty, id, severity, length, buf) ==
    IF ~st.enabled THEN st
    ELSE IF ~is_valid_severity(severity)
        THEN insert_api_error(st, INVALID_ENUM, MSG_SEVERITY_INVALID)
    ELSE IF ~is_valid_type(ty)
        THEN insert_api_error(st, INVALID_ENUM, MSG_TYPE_INVALID)
    ELSE IF ~is_valid_source(source)
        THEN insert_api_error(st, INVALID_ENUM, MSG_SOURCE_INVALID)
    ELSE LET proper_length == IF length < 0 THEN strlen(buf) ELSE length
         IN  IF proper_length > KHR_DEBUG_EMULATOR_MAX_DEBUG_MESSAGE_LENGTH
                 THEN insert_api_error(st, INVALID_VALUE, MSG_TOO_LONG)
             ELSE IF ~should_message_get_processed(st.rules, source, ty, id, severity)
                 THEN st
             ELSE dispatch_or_store(st, source, ty, id, severity, length,
                                    proper_length, buf)

\* fallback_debug_message_insert accepting every valid source but
\* DEBUG_SOURCE_API
fallback_debug_message_insert_any_source(st, source, ty, id, severity, length, buf) ==
    IF ~st.enabled THEN st
    ELSE IF source = DEBUG_SOURCE_API
        THEN insert_api_error(st, INVALID_ENUM, MSG_INSERT_SOURCE_RESTRICTED)
    ELSE debug_message_insert_internal(st, source, ty, id, severity, length, buf)

fallback_debug_message_insert(st, source, ty, id, severity, length, buf) ==
    IF ~st.enabled THEN st
    ELSE IF source # DEBUG_SOURCE_APPLICATION /\ source # DEBUG_SOURCE_THIRD_PARTY
        THEN insert_api_error(st, INVALID_ENUM, MSG_INSERT_SOURCE_RESTRICTED)
    ELSE debug_message_insert_internal(st, source, ty, id, severity, length, buf)

\* fallback_get_error without the reset of last_error
fallback_get_error_no_reset(st, original) ==
    LET current_error == IF original = NO_ERROR THEN st.last_error ELSE original
    IN  [st |-> [st EXCEPT !.native_queries = @ + 1], ret |-> current_error]

\* original: what the call of the native glGetError returns
fallback_get_error(st, original) ==
    LET current_error == IF original = NO_ERROR THEN st.last_error ELSE original
    IN  [st |-> [st EXCEPT !.native_queries = @ + 1, !.last_error = NO_ERROR],
         ret |-> current_error]

\* fallback_debug_message_callback keeping the user context of the first registration
fallback_debug_message_callback_first_context(st, cb, up) ==
    [st EXCEPT !.callback = Some(cb),
               !.user_param = IF st.callback = None THEN up ELSE @]

fallback_debug_message_callback(st, cb, up) ==
    [st EXCEPT !.callback = Some(cb), !.user_param = up]

\* fallback_debug_message_control returning after it has reported the error
fallback_debug_message_control_rejecting(st, source, ty, severity, count, ids, enabled_flag) ==
    IF count # 0 /\ (source = DONT_CARE \/ ty = DONT_CARE \/ severity # DONT_CARE)
    THEN insert_api_error(st, INVALID_OPERATION, MSG_CONTROL_INVALID)
    ELSE [st EXCEPT !.rules = Append(@,
              [source |-> source, ty |-> ty, severity |-> severity,
               enabled |-> enabled_flag, debug_group |-> st.debug_group_number,
               ids |-> SubSeq(ids, 1, count)])]

\* fallback_debug_message_control putting the new rule in front of the others
fallback_debug_message_control_prepending(st, source, ty, severity, count, ids, enabled_flag) ==
    LET st1 == IF count # 0 /\ (source = DONT_CARE \/ ty = DONT_CARE
                                \/ severity # DONT_CARE)
               THEN insert_api_error(st, INVALID_OPERATION, MSG_CONTROL_INVALID)
               ELSE st
    IN  [st1 EXCEPT !.rules =
             << [source |-> source, ty |-> ty, severity |-> severity,
                 enabled |-> enabled_flag, debug_group |-> st1.debug_group_number,
                 ids |-> SubSeq(ids, 1, count)] >> \o @]

\* ids is the caller's array, of which the first count elements are read
fallback_debug_message_control(st, source, ty, severity, count, ids, enabled_flag) ==
    LET st1 == IF count # 0 /\ (source = DONT_CARE \/ ty = DONT_CARE
                                \/ severity # DONT_CARE)
               THEN insert_api_error(st, INVALID_OPERATION, MSG_CONTROL_INVALID)
               ELSE st
    IN  [st1 EXCEPT !.rules = Append(@,
             [source |-> source, ty |-> ty, severity |-> severity,
              enabled |-> enabled_flag, debug_group |-> st1.debug_group_number,
              ids |-> SubSeq(ids, 1, count)])]

\* check_error skipping the error codes get_error_string has no phrase for
check_error_known_only(st, current_error, name) ==
    LET st1 == [st EXCEPT !.native_queries = @ + 1]
    IN  IF current_error # NO_ERROR /\ error_part(current_error) # "unknown error"
        THEN insert_api_error(st1, current_error, get_error_string(current_error, name))
        ELSE st1

\* current_error: what the one call of the native glGetError returns
check_error(st, current_error, name) ==
    LET st1 == [st EXCEPT !.native_queries = @ + 1]
    IN  IF current_error # NO_ERROR
        THEN insert_api_error(st1, current_error, get_error_string(current_error, name))
        ELSE st1

on_fn_called(st, current_error, name) == check_error(st, current_error, name)

Min(a, b) == IF a <= b THEN a ELSE b

\* `let mut v = slice[0]; v = value;`: the value is assigned to a local copy of
\* the caller's element, so the caller's element is never written
write_output(nonnull, value) == None

\* libc::strncpy(message_log, buf, bufsize), with bufsize > 0 and message_log
\* non-null.  Reading a "cstr" stops at its terminator, and the rest of the
\* destination is zero-filled.  A "literal" has no terminator and a "temp"
\* has been freed: what is read past or in place of the text is undefined,
\* and ub picks the outcome.
strncpy(buf, bufsize, ub) ==
    [text |-> buf.text,
     n |-> Min(buf.len, bufsize),
     intact |-> (buf.kind # "temp" \/ ub = "benign"),
     terminated |-> (buf.len < bufsize /\ (buf.kind = "cstr" \/ ub = "benign"))]

\* `let mut null = slice[(bufsize-1) as usize]; null = 0;` on a slice of count
\* elements: the index is bounds-checked, the assignment goes to a local copy
terminator_index_in_bounds(count, bufsize) == bufsize >= 1 /\ bufsize - 1 < count

LogResult(st, ret, fl, outs, text) ==
    [st |-> st, ret |-> ret, fault |-> fl, outs |-> outs, text |-> text]

NoOutputs == [types |-> None, sources |-> None, ids |-> None,
              severities |-> None, lengths |-> None]

\* fallback_get_debug_message_log reporting an empty log slot as an error
fallback_get_debug_message_log_empty_reported(st, count, bufsize, nonnull, message_log, ub) ==
    IF bufsize < 0 /\ message_log
    THEN LogResult(insert_api_error(st, INVALID_VALUE, MSG_LOG_BUFSIZE), 0,
                   "none", NoOutputs, None)
    ELSE IF count = 0 THEN LogResult(st, 0, "none", NoOutputs, None)
    ELSE IF st.last_debug_message = None
        THEN LogResult(insert_api_error(st, INVALID_VALUE, MSG_LOG_BUFSIZE), 0,
                       "none", NoOutputs, None)
    ELSE LET message == st.last_debug_message[1]
             st1 == [st EXCEPT !.last_debug_message = None]
         IN  IF bufsize <= message.length THEN LogResult(st1, 0, "none", NoOutputs, None)
             ELSE IF bufsize > 0 /\ ~message_log
                 THEN LogResult(st1, 0, "segfault", NoOutputs, None)
             ELSE LET text == IF bufsize > 0
                              THEN Some(strncpy(message.buf, bufsize, ub))
                              ELSE None
                  IN  IF ~terminator_index_in_bounds(count, bufsize)
                      THEN LogResult(st1, 0, "panic", NoOutputs, text)
                      ELSE LogResult(st1, 1, "none", NoOutputs, text)

\* fallback_get_debug_message_log looking at count before the capacity
fallback_get_debug_message_log_count_first(st, count, bufsize, nonnull, message_log, ub) ==
    IF count = 0 THEN LogResult(st, 0, "none", NoOutputs, None)
    ELSE IF bufsize < 0 /\ message_log
    THEN LogResult(insert_api_error(st, INVALID_VALUE, MSG_LOG_BUFSIZE), 0,
                   "none", NoOutputs, None)
    ELSE IF st.last_debug_message = None THEN LogResult(st, 0, "none", NoOutputs, None)
    ELSE LET message == st.last_debug_message[1]
             st1 == [st EXCEPT !.last_debug_message = None]
         IN  IF bufsize <= message.length THEN LogResult(st1, 0, "none", NoOutputs, None)
             ELSE IF bufsize > 0 /\ ~message_log
                 THEN LogResult(st1, 0, "segfault", NoOutputs, None)
             ELSE LET text == IF bufsize > 0
                              THEN Some(strncpy(message.buf, bufsize, ub))
                              ELSE None
                  IN  IF ~terminator_index_in_bounds(count, bufsize)
                      THEN LogResult(st1, 0, "panic", NoOutputs, text)
                      ELSE LogResult(st1, 1, "none", NoOutputs, text)

\* fallback_get_debug_message_log recording the error of a negative capacity
\* without a message for it
fallback_get_debug_message_log_error_only(st, count, bufsize, nonnull, message_log, ub) ==
    IF bufsize < 0 /\ message_log
    THEN LogResult([st EXCEPT !.last_error = INVALID_VALUE, !.api_errors = @ + 1], 0,
                   "none", NoOutputs, None)
    ELSE fallback_get_debug_message_log_count_first(st, count, bufsize, nonnull, message_log, ub)

\* nonnull: the names of the non-null output pointers among types, sources,
\* ids, severities, lengths; message_log: whether messageLog is non-null
fallback_get_debug_message_log(st, count, bufsize, nonnull, message_log, ub) ==
    IF bufsize < 0 /\ message_log
    THEN LogResult(insert_api_error(st, INVALID_VALUE, MSG_LOG_BUFSIZE), 0,
                   "none", NoOutputs, None)
    ELSE IF count = 0 THEN LogResult(st, 0, "none", NoOutputs, None)
    ELSE IF st.last_debug_message = None THEN LogResult(st, 0, "none", NoOutputs, None)
    ELSE LET message == st.last_debug_message[1]
             st1 == [st EXCEPT !.last_debug_message = None]
             outs == [types |-> write_output("types" \in nonnull, message.ty),
                      sources |-> write_output("sources" \in nonnull, message.source),
                      ids |-> write_output("ids" \in nonnull, message.id),
                      severities |-> write_output("severities" \in nonnull, message.severity),
                      lengths |-> write_output("lengths" \in nonnull, message.length)]
         IN  IF bufsize <= message.length THEN LogResult(st1, 0, "none", outs, None)
             ELSE IF bufsize > 0 /\ ~message_log
                 \* strncpy to a null destination
                 THEN LogResult(st1, 0, "segfault", outs, None)
             ELSE LET text == IF bufsize > 0
                              THEN Some(strncpy(message.buf, bufsize, ub))
                              ELSE None
                  IN  IF ~terminator_index_in_bounds(count, bufsize)
                      THEN LogResult(st1, 0, "panic", outs, text)
                      ELSE LogResult(st1, 1, "none", outs, text)

(***************************************************************************)
(* debug_struct_gen.rs: the loader of the generated struct.  A symbol is a *)
(* name, a pointer is the symbol it was loaded from or "null", and loadfn  *)
(* is the set of symbols the driver resolves.                              *)
(***************************************************************************)
\* the commands of the registry the model follows
Commands ==
    { "glDebugMessageCallback", "glDebugMessageInsert", "glDebugMessageControl",
      "glGetDebugMessageLog", "glGetError", "glDrawArrays" }

\* fn_overrides: symbol -> the function overriding it
fn_overrides ==
    [symbol \in { "glDebugMessageCallback", "glDebugMessageInsert", "glGetError" } |->
        CASE symbol = "glDebugMessageCallback" -> "fallback_debug_message_callback"
          [] symbol = "glDebugMessageInsert" -> "fallback_debug_message_insert"
          [] symbol = "glGetError" -> "fallback_get_error"]

\* registry.aliases: the fallback names of a command
aliases(symbol) ==
    IF symbol = "glDebugMessageCallback"
    THEN << "glDebugMessageCallbackARB", "glDebugMessageCallbackKHR" >>
    ELSE << >>

RECURSIVE first_loaded(_, _, _)
\* the loop over the fallback names: the first one that loads, or null
first_loaded(loadfn, symbols, k) ==
    IF k > Len(symbols) THEN "null"
    ELSE IF symbols[k] \in loadfn THEN symbols[k]
    ELSE first_loaded(loadfn, symbols, k + 1)

metaloadfn(loadfn, symbol, symbols) ==
    IF symbol \in loadfn THEN symbol ELSE first_loaded(loadfn, symbols, 1)

\* FnPtr::new
FnPtr_new(ptr) ==
    IF ptr = "null"
    THEN [kind |-> "FnPtr", f |-> "missing_fn_panic", is_loaded |-> FALSE]
    ELSE [kind |-> "FnPtr", f |-> ptr, is_loaded |-> TRUE]

Loaded(ptr) == [kind |-> "Loaded", original |-> ptr]
Overridden(original, new) == [kind |-> "Overridden", original |-> original, new |-> new]

\* OverridableFnPtr::get_original
get_original(p) == p.original

\* the fields of the struct load_with builds, one per command
load_with(loadfn) ==
    LET debug_output_fallback_required ==
            metaloadfn(loadfn, "glDebugMessageCallback",
                       << "glDebugMessageCallbackARB", "glDebugMessageCallbackKHR" >>) # "null"
    IN  [symbol \in Commands |->
            LET load == metaloadfn(loadfn, symbol, aliases(symbol))
            IN  IF symbol \in DOMAIN fn_overrides
                THEN IF debug_output_fallback_required
                     THEN Loaded(load)
                     ELSE Overridden(load, fn_overrides[symbol])
                ELSE FnPtr_new(load)]

(***************************************************************************)
(* The state machine.                                                      *)
(***************************************************************************)
State ==
    [enabled |-> enabled, last_error |-> last_error,
     last_debug_message |-> last_debug_message,
     debug_group_number |-> debug_group_number, rules |-> rules,
     callback |-> callback, user_param |-> user_param, calls |-> << >>,
     native_queries |-> 0, api_errors |-> 0]

Commit(st, fl, call) ==
    /\ enabled' = st.enabled
    /\ last_error' = st.last_error
    /\ last_debug_message' = st.last_debug_message
    /\ debug_group_number' = st.debug_group_number
    /\ rules' = st.rules
    /\ callback' = st.callback
    /\ user_param' = st.user_param
    /\ fnptrs' = fnptrs
    /\ dispatched' = st.calls
    /\ synthesized' = st.api_errors
    /\ fault' = fl
    /\ last_call' = call

\* a driver without the debug extension
DriverSymbols == { "glGetError", "glDrawArrays" }

\* load_with: DebugOutputState { enabled: true, callback: None,
\* user_param: null_mut(), last_error: NO_ERROR }, the log and the rule list
\* empty, and the function pointers as loadfn resolves them
InitWith(loadfn) ==
    /\ fnptrs = load_with(loadfn)
    /\ enabled = TRUE
    /\ last_error = NO_ERROR
    /\ last_debug_message = None
    /\ debug_group_number = 0
    /\ rules = << >>
    /\ callback = None
    /\ user_param = "null"
    /\ fault = "none"
    /\ synthesized = 0
    /\ last_call = [op |-> "load_with"]
    /\ dispatched = << >>

Init == InitWith(DriverSymbols)

Message(source, ty, id, severity, length, buf) ==
    [source |-> source, ty |-> ty, id |-> id, severity |-> severity,
     length |-> length, buf |-> buf]

InsertMessage(source, ty, id, severity, length, buf) ==
    /\ fault = "none"
    /\ Commit(debug_message_insert_internal(State, source, ty, id, severity, length, buf),
              "none",
              [op |-> "debug_message_insert_internal",
               msg |-> Message(source, ty, id, severity, length, buf),
               found |-> last_debug_message])

InsertUserMessage(source, ty, id, severity, length, buf) ==
    /\ fault = "none"
    /\ Commit(fallback_debug_message_insert(State, source, ty, id, severity, length, buf),
              "none",
              [op |-> "fallback_debug_message_insert",
               msg |-> Message(source, ty, id, severity, length, buf),
               found |-> last_debug_message])

ControlMessages(source, ty, severity, ids, enabled_flag) ==
    /\ fault = "none"
    /\ Commit(fallback_debug_message_control(State, source, ty, severity, Len(ids),
                                             ids, enabled_flag),
              "none",
              [op |-> "fallback_debug_message_control", source |-> source,
               ty |-> ty, severity |-> severity, ids |-> ids,
               enabled |-> enabled_flag])

RegisterCallback(cb, up) ==
    /\ fault = "none"
    /\ Commit(fallback_debug_message_callback(State, cb, up), "none",
              [op |-> "fallback_debug_message_callback", callback |-> cb,
               user_param |-> up])

GetError(original) ==
    /\ fault = "none"
    /\ LET r == fallback_get_error(State, original)
       IN  Commit(r.st, "none",
                  [op |-> "fallback_get_error", original |-> original,
                   ret |-> r.ret, queries |-> r.st.native_queries])

DrainLog(count, bufsize, nonnull, message_log, ub) ==
    /\ fault = "none"
    /\ LET r == fallback_get_debug_message_log(State, count, bufsize, nonnull,
                                               message_log, ub)
       IN  Commit(r.st, r.fault,
                  [op |-> "fallback_get_debug_message_log", count |-> count,
                   bufsize |-> bufsize, nonnull |-> nonnull,
                   message_log |-> message_log, found |-> last_debug_message,
                   ret |-> r.ret, outs |-> r.outs, text |-> r.text])

OnFnCalled(current_error, name) ==
    /\ fault = "none"
    /\ LET st == on_fn_called(State, current_error, name)
       IN  Commit(st, "none",
                  [op |-> "on_fn_called", current_error |-> current_error,
                   name |-> name, queries |-> st.native_queries])

(***************************************************************************)
(* The generated wrappers: `let r = <call>; trace; on_fn_called(name); r`. *)
(* The call goes through the command's field of the struct: to the         *)
(* override or the native function of an OverridableFnPtr, or to the       *)
(* native function or missing_fn_panic of a FnPtr.  A call through a null  *)
(* pointer ends the process.                                               *)
(***************************************************************************)
\* the function the wrapper calls through field p
Target(p) ==
    CASE p.kind = "Overridden" -> p.new
      [] p.kind = "Loaded" -> p.original
      [] p.kind = "FnPtr" -> p.f

\* after_override: the state the override leaves, for the overridable commands;
\* current_error: what the native glGetError returns to check_error
Wrapper(name, after_override, current_error) ==
    /\ fault = "none"
    /\ LET p == fnptrs[name]
           call == [op |-> name, target |-> Target(p), current_error |-> current_error]
       IN  IF Target(p) = "missing_fn_panic" THEN Commit(State, "panic", call)
           ELSE IF Target(p) = "null" THEN Commit(State, "segfault", call)
           ELSE LET st1 == IF p.kind = "Overridden" THEN after_override ELSE State
                IN  IF get_original(fnptrs["glGetError"]) = "null"
                    THEN Commit(st1, "segfault", call)
                    ELSE Commit(on_fn_called(st1, current_error, name), "none", call)

DebugMessageCallback(cb, up, current_error) ==
    Wrapper("glDebugMessageCallback", fallback_debug_message_callback(State, cb, up),
            current_error)

DebugMessageInsert(source, ty, id, severity, length, buf, current_error) ==
    Wrapper("glDebugMessageInsert",
            fallback_debug_message_insert(State, source, ty, id, severity, length, buf),
            current_error)

GetErrorWrapper(original, current_error) ==
    Wrapper("glGetError", fallback_get_error(State, original).st, current_error)

DebugMessageControl(current_error) ==
    Wrapper("glDebugMessageControl", State, current_error)

GetDebugMessageLog(current_error) ==
    Wrapper("glGetDebugMessageLog", State, current_error)

(***************************************************************************)
(* Inputs.  A universe U names the arguments the entry points are called   *)
(* with: messages for the two insert entry points, rules, callbacks and    *)
(* contexts, native error codes, intercepted calls and log reads.          *)
(***************************************************************************)
MaxRules == 2
MaxFilterRules == 3

UserBuf(n) == [text |-> "user text", len |-> n, kind |-> "cstr"]

TooLong == KHR_DEBUG_EMULATOR_MAX_DEBUG_MESSAGE_LENGTH + 1

Rule(source, ty, severity, ids, enabled_flag) ==
    [source |-> source, ty |-> ty, severity |-> severity, ids |-> ids,
     enabled |-> enabled_flag]

\* ub: what the undefined reads of this call yield, should it make any
LogRead(count, bufsize, nonnull, message_log, ub) ==
    [count |-> count, bufsize |-> bufsize, nonnull |-> nonnull,
     message_log |-> message_log, ub |-> ub]

AllOutputs == { "types", "sources", "ids", "severities", "lengths" }

UBOutcomes == { "benign", "garbage" }

NextOver(U) ==
    \/ \E m \in U.msgs :
            InsertMessage(m.source, m.ty, m.id, m.severity, m.length, m.buf)
    \/ \E m \in U.user_msgs :
            InsertUserMessage(m.source, m.ty, m.id, m.severity, m.length, m.buf)
    \/ \E r \in U.rules :
            /\ Len(rules) < U.max_rules
            /\ ControlMessages(r.source, r.ty, r.severity, r.ids, r.enabled)
    \/ \E g \in U.registrations : RegisterCallback(g[1], g[2])
    \/ \E original \in U.native : GetError(original)
    \/ \E d \in U.reads :
            DrainLog(d.count, d.bufsize, d.nonnull, d.message_log, d.ub)
    \/ \E c \in U.intercepted : OnFnCalled(c[1], c[2])

(***************************************************************************)
(* The main universe: every entry point, each argument varied around a     *)
(* valid application message.                                              *)
(***************************************************************************)
MainMsgs ==
    { Message(DEBUG_SOURCE_WINDOW_SYSTEM, DEBUG_TYPE_OTHER, "id 1", DEBUG_SEVERITY_HIGH, 3, UserBuf(3)),
      Message(DEBUG_SOURCE_API, DEBUG_TYPE_ERROR, "id 2", DEBUG_SEVERITY_LOW, -1, UserBuf(3)),
      Message(DONT_CARE, DEBUG_TYPE_OTHER, "id 1", DEBUG_SEVERITY_HIGH, 3, UserBuf(3)),
      Message(DEBUG_SOURCE_API, DONT_CARE, "id 1", DEBUG_SEVERITY_HIGH, 3, UserBuf(3)),
      Message(DEBUG_SOURCE_API, DEBUG_TYPE_OTHER, "id 1", DONT_CARE, 3, UserBuf(3)),
      Message(DEBUG_SOURCE_API, DEBUG_TYPE_OTHER, "id 1", DEBUG_SEVERITY_HIGH, TooLong, UserBuf(TooLong)) }

MainUserMsgs ==
    { Message(source, DEBUG_TYPE_OTHER, "id 1", DEBUG_SEVERITY_HIGH, 3, UserBuf(3)) :
        source \in { DEBUG_SOURCE_APPLICATION, DEBUG_SOURCE_THIRD_PARTY,
                     DEBUG_SOURCE_WINDOW_SYSTEM, DEBUG_SOURCE_API, DONT_CARE } }
    \cup
    { Message(DEBUG_SOURCE_APPLICATION, DEBUG_TYPE_MARKER, "id 2", severity, -1, UserBuf(3)) :
        severity \in { DEBUG_SEVERITY_MEDIUM, DEBUG_SEVERITY_LOW } }
    \cup
    { Message(DEBUG_SOURCE_THIRD_PARTY, DEBUG_TYPE_OTHER, "id 1", DEBUG_SEVERITY_NOTIFICATION,
              -1, UserBuf(TooLong)) }

MainRules ==
    { Rule(DONT_CARE, DONT_CARE, DEBUG_SEVERITY_HIGH, << >>, 0),
      Rule(DONT_CARE, DONT_CARE, DEBUG_SEVERITY_LOW, << >>, 1),
      Rule(DONT_CARE, DEBUG_TYPE_OTHER, DONT_CARE, << "id 1" >>, 0) }

MainReads ==
    { LogRead(0, 4, AllOutputs, TRUE, "benign"),
      LogRead(1, -1, AllOutputs, TRUE, "benign"),
      LogRead(1, -1, AllOutputs, FALSE, "benign"),
      LogRead(1, 3, AllOutputs, TRUE, "benign"),
      LogRead(1, 1, { "lengths" }, TRUE, "benign"),
      LogRead(1, 4, AllOutputs, TRUE, "benign"),
      LogRead(4, 4, AllOutputs, TRUE, "benign"),
      LogRead(4, 4, {}, FALSE, "benign"),
      LogRead(TooLong, TooLong, AllOutputs, TRUE, "benign"),
      LogRead(TooLong, TooLong, AllOutputs, TRUE, "garbage") }

MainInputs ==
    [msgs |-> MainMsgs,
     user_msgs |-> MainUserMsgs,
     rules |-> MainRules,
     max_rules |-> MaxRules,
     registrations |-> { << "callback 1", "context 1" >>, << "callback 2", "context 2" >> },
     native |-> { NO_ERROR, OUT_OF_MEMORY },
     reads |-> MainReads,
     intercepted |-> { << NO_ERROR, "glDrawArrays" >>, << INVALID_OPERATION, "glDrawArrays" >>,
                       << STACK_OVERFLOW, "glPopDebugGroup" >> }]

Next == NextOver(MainInputs)

Spec == Init /\ [][Next]_vars

(***************************************************************************)
(* The filter universe: rules of increasing specificity, enabling and      *)
(* disabling, and messages they tell apart.                                *)
(***************************************************************************)
FilterMsgs ==
    { Message(DEBUG_SOURCE_APPLICATION, DEBUG_TYPE_OTHER, "id 1", DEBUG_SEVERITY_LOW, 3, UserBuf(3)),
      Message(DEBUG_SOURCE_APPLICATION, DEBUG_TYPE_OTHER, "id 1", DEBUG_SEVERITY_HIGH, 3, UserBuf(3)),
      Message(DEBUG_SOURCE_APPLICATION, DEBUG_TYPE_OTHER, "id 2", DEBUG_SEVERITY_LOW, 3, UserBuf(3)),
      Message(DEBUG_SOURCE_API, DEBUG_TYPE_ERROR, "id 2", DEBUG_SEVERITY_HIGH, 3, UserBuf(3)) }

FilterRules ==
    { Rule(DONT_CARE, DONT_CARE, DONT_CARE, << >>, e) : e \in GLbooleans }
    \cup { Rule(DONT_CARE, DONT_CARE, DEBUG_SEVERITY_LOW, << >>, 0) }
    \cup { Rule(DEBUG_SOURCE_APPLICATION, DEBUG_TYPE_OTHER, DONT_CARE, << "id 1" >>, e) :
             e \in GLbooleans }
    \cup { Rule(DONT_CARE, DONT_CARE, DEBUG_SEVERITY_HIGH, << >>, 0) }

FilterInputs ==
    [msgs |-> FilterMsgs,
     user_msgs |-> { Message(DEBUG_SOURCE_APPLICATION, DEBUG_TYPE_OTHER, "id 1",
                             DEBUG_SEVERITY_MEDIUM, 3, UserBuf(3)) },
     rules |-> FilterRules,
     max_rules |-> MaxFilterRules,
     registrations |-> { << "callback 1", "context 1" >> },
     native |-> { NO_ERROR },
     reads |-> { LogRead(4, 4, AllOutputs, TRUE, "benign") },
     intercepted |-> { << NO_ERROR, "glDrawArrays" >> }]

NextFilter == NextOver(FilterInputs)

SpecFilter == Init /\ [][NextFilter]_vars

(***************************************************************************)
(* Vocabulary of the properties.                                           *)
(***************************************************************************)
Sources == { DEBUG_SOURCE_API, DEBUG_SOURCE_SHADER_COMPILER, DEBUG_SOURCE_WINDOW_SYSTEM,
             DEBUG_SOURCE_THIRD_PARTY, DEBUG_SOURCE_APPLICATION, DEBUG_SOURCE_OTHER }
Types == { DEBUG_TYPE_ERROR, DEBUG_TYPE_DEPRECATED_BEHAVIOR, DEBUG_TYPE_UNDEFINED_BEHAVIOR,
           DEBUG_TYPE_PERFORMANCE, DEBUG_TYPE_PORTABILITY, DEBUG_TYPE_OTHER,
           DEBUG_TYPE_MARKER, DEBUG_TYPE_PUSH_GROUP, DEBUG_TYPE_POP_GROUP }
Severities == { DEBUG_SEVERITY_HIGH, DEBUG_SEVERITY_MEDIUM, DEBUG_SEVERITY_LOW,
                DEBUG_SEVERITY_NOTIFICATION }

\* message tuples the filtering decisions are compared on
Tuples ==
    [source : { DEBUG_SOURCE_APPLICATION, DEBUG_SOURCE_THIRD_PARTY, DEBUG_SOURCE_API },
     ty : { DEBUG_TYPE_OTHER, DEBUG_TYPE_ERROR },
     id : { "id 1", "id 2" },
     severity : Severities]

\* the decision of the code for a tuple, under the rule list rs
Decision(rs, t) == should_message_get_processed(rs, t.source, t.ty, t.id, t.severity)

\* the indices of the rules of rs for which ruleApplies holds
Applicable(rs, t) ==
    { k \in 1..Len(rs) : rule_applies(rs[k], t.source, t.ty, t.id, t.severity) }

SetMax(S) == CHOOSE x \in S : \A y \in S : y <= x

IsInsert(c) ==
    c.op \in { "debug_message_insert_internal", "fallback_debug_message_insert" }

\* the length of the message: the explicit one, or the content length of the
\* terminated buffer when the sentinel is given
EffectiveLength(m) == IF m.length < 0 THEN m.buf.len ELSE m.length

\* the call inserted a message that passes every validation of its entry point
InsertedValid(c) ==
    /\ IsInsert(c)
    /\ c.msg.severity \in Severities
    /\ c.msg.ty \in Types
    /\ c.msg.source \in Sources
    /\ c.op = "fallback_debug_message_insert" =>
           c.msg.source \in { DEBUG_SOURCE_APPLICATION, DEBUG_SOURCE_THIRD_PARTY }
    /\ EffectiveLength(c.msg) <= 256

SameTuple(a, b) ==
    /\ a.source = b.source
    /\ a.ty = b.ty
    /\ a.id = b.id
    /\ a.severity = b.severity

\* message m is what the log slot holds
InLog(m) ==
    /\ last_debug_message # None
    /\ SameTuple(last_debug_message[1], m)
    /\ last_debug_message[1].buf = m.buf

\* In a state reached by inserting a valid message, whether the message was
\* delivered shows in the state: with a callback registered it was dispatched,
\* and without one it is in the log slot
DeliveredAs(flag) ==
    IF callback # None
    THEN (dispatched # << >>) <=> flag
    ELSE /\ dispatched = << >>
         /\ flag => InLog(last_call.msg)

(***************************************************************************)
(* C1: the filtering decision for a message tuple is the enabled flag of   *)
(* the most recently registered rule that applies to it, whatever older    *)
(* applicable rules say: for every tuple and every reachable rule list,    *)
(* and for the delivery of every valid message inserted.                   *)
(***************************************************************************)
C1_NewestRuleWins ==
    /\ \A t \in Tuples :
         LET app == Applicable(rules, t)
         IN  app # {} => (Decision(rules, t) <=> rules[SetMax(app)].enabled # 0)
    /\ InsertedValid(last_call) =>
         LET app == Applicable(rules, last_call.msg)
         IN  app # {} => DeliveredAs(rules[SetMax(app)].enabled # 0)

\* three applicable rules, the newest enabling against the one before it, and
\* the message dispatched
C1_Witness ==
    /\ InsertedValid(last_call)
    /\ Len(rules) = 3
    /\ Applicable(rules, last_call.msg) = { 1, 2, 3 }
    /\ rules[3].enabled = 1
    /\ rules[2].enabled = 0
    /\ callback # None
    /\ dispatched # << >>

(***************************************************************************)
(* C2: with no rules registered, shouldProcess is true for every source,   *)
(* type and id when the severity is high, medium or notification, and      *)
(* false when it is low.                                                   *)
(***************************************************************************)
C2_DefaultPolicy ==
    rules = << >> =>
        /\ \A source \in Sources, ty \in Types, id \in { "id 1", "id 2" },
              severity \in Severities :
                should_message_get_processed(rules, source, ty, id, severity)
                    <=> severity # DEBUG_SEVERITY_LOW
        /\ InsertedValid(last_call) =>
                DeliveredAs(last_call.msg.severity # DEBUG_SEVERITY_LOW)

\* a low message dropped and a non-low message dispatched under no rules
C2_Witness ==
    /\ rules = << >>
    /\ InsertedValid(last_call)
    /\ last_call.msg.severity = DEBUG_SEVERITY_LOW
    /\ callback # None
    /\ dispatched = << >>

(***************************************************************************)
(* C3: a rule with enabled = false, a concrete severity S, wildcard source *)
(* and type and no ids suppresses exactly the messages of severity S for   *)
(* which no newer rule applies: such a message is neither dispatched nor   *)
(* stored, and the decision for a message of another severity is the one   *)
(* of the rules registered before it.                                      *)
(***************************************************************************)
C3_Shape(r) ==
    /\ r.enabled = 0
    /\ r.severity # DONT_CARE
    /\ r.source = DONT_CARE
    /\ r.ty = DONT_CARE
    /\ r.ids = << >>

\* rule k of rs is such a rule and no newer rule applies to t
C3_InForce(rs, k, t) ==
    /\ C3_Shape(rs[k])
    /\ \A j \in (k + 1)..Len(rs) : j \notin Applicable(rs, t)

C3_Decisions ==
    \A k \in 1..Len(rules), t \in Tuples :
        C3_InForce(rules, k, t) =>
            IF t.severity = rules[k].severity
            THEN ~Decision(rules, t)
            ELSE Decision(rules, t) <=> Decision(SubSeq(rules, 1, k - 1), t)

C3_Suppressed(rs, m) ==
    \E k \in 1..Len(rs) : C3_InForce(rs, k, m) /\ m.severity = rs[k].severity

C3_Step ==
    /\ \A i \in 1..Len(dispatched') : ~C3_Suppressed(rules, dispatched'[i])
    /\ (last_debug_message' # last_debug_message /\ last_debug_message' # None) =>
           ~C3_Suppressed(rules, last_debug_message'[1])

C3_SeverityRuleSuppresses == [](C3_Decisions) /\ [][C3_Step]_vars

\* a valid high message dropped under a rule disabling high, with an older
\* rule enabling everything and a callback registered
C3_Witness ==
    /\ InsertedValid(last_call)
    /\ last_call.msg.severity = DEBUG_SEVERITY_HIGH
    /\ Len(rules) >= 2
    /\ rules[1].enabled = 1
    /\ 1 \in Applicable(rules, last_call.msg)
    /\ C3_Suppressed(rules, last_call.msg)
    /\ callback # None
    /\ dispatched = << >>

(***************************************************************************)
(* The length universe: terminated buffers with content lengths around the *)
(* limit, each inserted with the sentinel and with its explicit length.    *)
(***************************************************************************)
LenSamples == { 0, 1, 2, 128, 255, 256, 257, 258, 300 }

LenMsgs ==
    { Message(DEBUG_SOURCE_APPLICATION, DEBUG_TYPE_OTHER, "id 1", DEBUG_SEVERITY_HIGH,
              length, UserBuf(n)) : n \in LenSamples, length \in { -1 } }
    \cup
    { Message(DEBUG_SOURCE_APPLICATION, DEBUG_TYPE_OTHER, "id 1", DEBUG_SEVERITY_HIGH,
              n, UserBuf(n)) : n \in LenSamples }
    \cup
    { Message(DEBUG_SOURCE_APPLICATION, DEBUG_TYPE_OTHER, "id 1", DEBUG_SEVERITY_HIGH,
              257, UserBuf(1)),
      Message(DEBUG_SOURCE_APPLICATION, DEBUG_TYPE_OTHER, "id 1", DEBUG_SEVERITY_HIGH,
              1, UserBuf(257)),
      Message(DEBUG_SOURCE_APPLICATION, DEBUG_TYPE_OTHER, "id 1", DONT_CARE,
              257, UserBuf(257)),
      Message(DEBUG_SOURCE_APPLICATION, DONT_CARE, "id 1", DEBUG_SEVERITY_HIGH,
              1, UserBuf(1)),
      Message(DONT_CARE, DEBUG_TYPE_OTHER, "id 1", DEBUG_SEVERITY_HIGH,
              -1, UserBuf(256)),
      Message(DONT_CARE, DONT_CARE, "id 1", DONT_CARE, 3, UserBuf(3)),
      Message(DONT_CARE, DONT_CARE, "id 1", DEBUG_SEVERITY_HIGH, 257, UserBuf(257)) }

LenInputs ==
    [msgs |-> LenMsgs,
     user_msgs |-> { Message(source, DEBUG_TYPE_OTHER, "id 2", DEBUG_SEVERITY_MEDIUM,
                             -1, UserBuf(n)) :
                       source \in { DEBUG_SOURCE_THIRD_PARTY, DEBUG_SOURCE_OTHER },
                       n \in { 256, 257 } },
     rules |-> { Rule(DONT_CARE, DONT_CARE, DEBUG_SEVERITY_MEDIUM, << >>, 0) },
     max_rules |-> MaxRules,
     registrations |-> { << "callback 1", "context 1" >> },
     native |-> { NO_ERROR },
     reads |-> { LogRead(1, 1, AllOutputs, TRUE, "benign"),
                 LogRead(TooLong, TooLong, AllOutputs, TRUE, "benign") },
     intercepted |-> { << INVALID_OPERATION, "glDrawArrays" >> }]

NextLen == NextOver(LenInputs)

SpecLen == Init /\ [][NextLen]_vars

(***************************************************************************)
(* C4: inserting a terminated buffer of content length N with the sentinel *)
(* -1 gives the same stored length (no callback) and the same dispatched   *)
(* length (callback) as inserting it with the explicit length N, which is  *)
(* N.                                                                      *)
(***************************************************************************)
C4_SentinelSameLength ==
    InsertedValid(last_call) =>
        /\ \A i \in 1..Len(dispatched) :
             dispatched[i].length = EffectiveLength(last_call.msg)
        /\ (callback = None /\ InLog(last_call.msg)) =>
             last_debug_message[1].length = EffectiveLength(last_call.msg)

(***************************************************************************)
(* C7: an insert whose computed length exceeds 256 sets lastError to       *)
(* invalid-value, and the over-long message is neither stored in the log   *)
(* slot nor passed to the callback.  The length is computed once the       *)
(* severity, type and source have passed validation.                       *)
(***************************************************************************)
\* the call inserted a message that passes the validations before the length
EnumsValid(c) ==
    /\ IsInsert(c)
    /\ c.msg.severity \in Severities
    /\ c.msg.ty \in Types
    /\ c.msg.source \in Sources
    /\ c.op = "fallback_debug_message_insert" =>
           c.msg.source \in { DEBUG_SOURCE_APPLICATION, DEBUG_SOURCE_THIRD_PARTY }

\* the step neither stores nor dispatches a message with the text of m
NotDelivered(m) ==
    /\ \/ last_debug_message' = last_debug_message
       \/ last_debug_message' = None
       \/ last_debug_message'[1].buf # m.buf
    /\ \A i \in 1..Len(dispatched') : dispatched'[i].buf # m.buf

C7_Step ==
    (EnumsValid(last_call') /\ EffectiveLength(last_call'.msg) > 256) =>
        /\ last_error' = INVALID_VALUE
        /\ NotDelivered(last_call'.msg)

C7_TooLongRejected == [][C7_Step]_vars

\* a message of 257 chars was inserted with the sentinel and the error took
\* its place in the log slot
C7_Witness ==
    /\ EnumsValid(last_call)
    /\ last_call.msg.length < 0
    /\ EffectiveLength(last_call.msg) = 257
    /\ last_error = INVALID_VALUE
    /\ last_debug_message # None
    /\ last_debug_message[1].id = INVALID_VALUE
    /\ last_debug_message[1].buf # last_call.msg.buf

(***************************************************************************)
(* C5: getLastError returns the native error code when the native query    *)
(* reports one, and the last synthetic error otherwise; it clears the      *)
(* synthetic error, which no step but the synthesis of another error sets  *)
(* again, so that it is returned exactly once.                             *)
(***************************************************************************)
\* the call detects a problem it reports as an error
SynthesizesError(c) ==
    \/ c.op = "on_fn_called" /\ c.current_error # NO_ERROR
    \/ IsInsert(c) /\ ~InsertedValid(c)
    \/ /\ c.op = "fallback_debug_message_control"
       /\ c.ids # << >>
       /\ (c.source = DONT_CARE \/ c.ty = DONT_CARE \/ c.severity # DONT_CARE)
    \/ c.op = "fallback_get_debug_message_log" /\ c.bufsize < 0 /\ c.message_log

C5_Step ==
    /\ last_call'.op = "fallback_get_error" =>
         /\ last_call'.ret = IF last_call'.original # NO_ERROR
                             THEN last_call'.original
                             ELSE last_error
         /\ last_error' = NO_ERROR
    /\ last_call'.op # "fallback_get_error" =>
         (last_error' # last_error => SynthesizesError(last_call'))

C5_GetLastError == [][C5_Step]_vars

\* a synthetic error was returned, there being no native one, and cleared
C5_Witness ==
    /\ last_call.op = "fallback_get_error"
    /\ last_call.original = NO_ERROR
    /\ last_call.ret = INVALID_ENUM
    /\ last_error = NO_ERROR

(***************************************************************************)
(* C6: with a callback registered, inserting a valid message that passes   *)
(* filtering invokes that callback exactly once with the supplied source,  *)
(* type, id, severity, length and text and the registered context.  As     *)
(* claimed, the log slot is empty afterward; as amended, the message is    *)
(* not stored and the log slot is left as it was.                          *)
(***************************************************************************)
C6_Dispatched(m) ==
    dispatched' = << [callback |-> callback[1], source |-> m.source, ty |-> m.ty,
                      id |-> m.id, severity |-> m.severity,
                      length |-> EffectiveLength(m), buf |-> m.buf,
                      user_param |-> user_param] >>

C6_Case ==
    /\ InsertedValid(last_call')
    /\ callback # None
    /\ Decision(rules, last_call'.msg)

C6_CallbackOnce ==
    [][C6_Case => /\ C6_Dispatched(last_call'.msg)
                  /\ last_debug_message' = last_debug_message]_vars

C6_CallbackOnceLogEmpty ==
    [][C6_Case => /\ C6_Dispatched(last_call'.msg)
                  /\ last_debug_message' = None]_vars

\* dispatched once with the registered context, over an occupied log slot
C6_Witness ==
    /\ InsertedValid(last_call)
    /\ callback = Some("callback 2")
    /\ Len(dispatched) = 1
    /\ dispatched[1].callback = "callback 2"
    /\ dispatched[1].user_param = "context 2"
    /\ dispatched[1].buf = last_call.msg.buf
    /\ last_debug_message # None

(***************************************************************************)
(* C8: insertUserMessage with a source that is neither application nor     *)
(* third-party sets lastError to invalid-enum, and the user's message      *)
(* reaches neither the log slot nor the callback.                          *)
(***************************************************************************)
C8_Step ==
    (/\ last_call'.op = "fallback_debug_message_insert"
     /\ last_call'.msg.source \notin { DEBUG_SOURCE_APPLICATION, DEBUG_SOURCE_THIRD_PARTY })
    => /\ last_error' = INVALID_ENUM
       /\ NotDelivered(last_call'.msg)

C8_UserSourceRejected == [][C8_Step]_vars

\* a window-system message was rejected, and only the error was dispatched
C8_Witness ==
    /\ last_call.op = "fallback_debug_message_insert"
    /\ last_call.msg.source = DEBUG_SOURCE_WINDOW_SYSTEM
    /\ last_error = INVALID_ENUM
    /\ Len(dispatched) = 1
    /\ dispatched[1].source = DEBUG_SOURCE_API
    /\ dispatched[1].id = INVALID_ENUM

(***************************************************************************)
(* C9: drainLog (maxCount >= 1, no negative capacity with a text buffer)   *)
(* on an occupied log slot with bufferCapacity smaller than the message's  *)
(* length + 1 returns 0, reports no error and leaves the log slot empty.   *)
(***************************************************************************)
IsRead(c) == c.op = "fallback_get_debug_message_log"

C9_Step ==
    (/\ IsRead(last_call')
     /\ last_call'.count >= 1
     /\ ~(last_call'.bufsize < 0 /\ last_call'.message_log)
     /\ last_debug_message # None
     /\ last_call'.bufsize < EffectiveLength(last_debug_message[1]) + 1)
    => /\ last_call'.ret = 0
       /\ fault' = "none"
       /\ last_error' = last_error
       /\ dispatched' = << >>
       /\ last_debug_message' = None

C9_SmallBufferDrops == [][C9_Step]_vars

(***************************************************************************)
(* C10: drainLog with maxCount >= 1 on an occupied log slot writes the     *)
(* message's type, source, id, severity and length into each non-null      *)
(* output; with a sufficient bufferCapacity it also copies the text,       *)
(* returns 1 and leaves the log slot empty.                                *)
(***************************************************************************)
C10_Expected(message) ==
    [types |-> message.ty, sources |-> message.source, ids |-> message.id,
     severities |-> message.severity, lengths |-> EffectiveLength(message)]

C10_Step ==
    (/\ IsRead(last_call')
     /\ last_call'.count >= 1
     /\ ~(last_call'.bufsize < 0 /\ last_call'.message_log)
     /\ last_debug_message # None)
    => /\ \A o \in last_call'.nonnull :
            last_call'.outs[o] = Some(C10_Expected(last_debug_message[1])[o])
       /\ (/\ last_call'.message_log
           /\ last_call'.bufsize >= EffectiveLength(last_debug_message[1]) + 1)
          => /\ last_call'.ret = 1
             /\ last_call'.text # None
             /\ last_debug_message' = None

C10_DrainWritesOutputs == [][C10_Step]_vars

(***************************************************************************)
(* The log universe: messages that are stored, dropped and rejected, rules *)
(* that silence the synthesized errors or are malformed, and reads of the  *)
(* log slot with and without a valid capacity.                             *)
(***************************************************************************)
LogMsgs ==
    { Message(DEBUG_SOURCE_WINDOW_SYSTEM, DEBUG_TYPE_OTHER, "id 1", DEBUG_SEVERITY_HIGH, 3, UserBuf(3)),
      Message(DEBUG_SOURCE_API, DEBUG_TYPE_OTHER, "id 2", DEBUG_SEVERITY_LOW, 3, UserBuf(3)),
      Message(DEBUG_SOURCE_API, DEBUG_TYPE_OTHER, "id 1", DONT_CARE, 3, UserBuf(3)),
      Message(DEBUG_SOURCE_API, DEBUG_TYPE_OTHER, "id 1", DEBUG_SEVERITY_HIGH, -1, UserBuf(TooLong)) }

LogUserMsgs ==
    { Message(DEBUG_SOURCE_APPLICATION, DEBUG_TYPE_MARKER, "id 2", DEBUG_SEVERITY_MEDIUM, -1, UserBuf(3)),
      Message(DEBUG_SOURCE_WINDOW_SYSTEM, DEBUG_TYPE_OTHER, "id 1", DEBUG_SEVERITY_HIGH, 3, UserBuf(3)) }

LogRules ==
    { Rule(DEBUG_SOURCE_API, DEBUG_TYPE_ERROR, DONT_CARE, << >>, 0),
      Rule(DONT_CARE, DEBUG_TYPE_OTHER, DONT_CARE, << "id 1" >>, 0),
      Rule(DEBUG_SOURCE_WINDOW_SYSTEM, DEBUG_TYPE_OTHER, DEBUG_SEVERITY_HIGH, << "id 1", "id 2" >>, 0),
      Rule(DEBUG_SOURCE_APPLICATION, DEBUG_TYPE_MARKER, DONT_CARE, << "id 2" >>, 0),
      Rule(DEBUG_SOURCE_API, DONT_CARE, DONT_CARE, << "id 2" >>, 1) }

LogReads ==
    { LogRead(0, 4, AllOutputs, TRUE, "benign"),
      LogRead(1, 4, AllOutputs, TRUE, "benign"),
      LogRead(1, 1, AllOutputs, TRUE, "benign"),
      LogRead(1, 0, {}, FALSE, "benign"),
      LogRead(1, -1, {}, FALSE, "benign"),
      LogRead(1, -1, AllOutputs, TRUE, "benign"),
      LogRead(0, -1, AllOutputs, TRUE, "benign") }

LogInputs ==
    [msgs |-> LogMsgs,
     user_msgs |-> LogUserMsgs,
     rules |-> LogRules,
     max_rules |-> MaxRules,
     registrations |-> { << "callback 1", "context 1" >> },
     native |-> { NO_ERROR, OUT_OF_MEMORY },
     reads |-> LogReads,
     intercepted |-> { << NO_ERROR, "glDrawArrays" >>, << INVALID_OPERATION, "glDrawArrays" >>,
                       << STACK_OVERFLOW, "glPopDebugGroup" >> }]

NextLog == NextOver(LogInputs)

SpecLog == Init /\ [][NextLog]_vars

\* the fields of the DebugOutputState are left as they were, and no callback
\* is invoked
StateUnchanged ==
    /\ UNCHANGED << enabled, last_error, last_debug_message, debug_group_number,
                    rules, callback, user_param >>
    /\ dispatched' = << >>

(***************************************************************************)
(* C11: drainLog with maxCount = 1 on an empty log slot returns 0 and      *)
(* writes none of the outputs.  As claimed, it leaves the whole emulation  *)
(* state unchanged; as amended, it does so unless bufferCapacity is        *)
(* negative and a text buffer is supplied, when an invalid-value error is  *)
(* recorded and its message stored or dispatched.                          *)
(***************************************************************************)
C11_Case ==
    /\ IsRead(last_call')
    /\ last_call'.count = 1
    /\ last_debug_message = None

C11_Returns ==
    /\ last_call'.ret = 0
    /\ last_call'.outs = NoOutputs
    /\ last_call'.text = None
    /\ fault' = "none"

C11_EmptyDrain ==
    [][C11_Case => /\ C11_Returns
                   /\ ~(last_call'.bufsize < 0 /\ last_call'.message_log)
                          => StateUnchanged]_vars

C11_EmptyDrainNoChange == [][C11_Case => C11_Returns /\ StateUnchanged]_vars

\* an empty slot was read with a valid capacity, in a state with a recorded
\* error, a rule and a callback, all of which are still there
C11_Witness ==
    /\ IsRead(last_call)
    /\ last_call.count = 1
    /\ last_call.bufsize >= 0
    /\ last_call.found = None
    /\ last_call.ret = 0
    /\ last_debug_message = None
    /\ last_error = INVALID_OPERATION
    /\ rules # << >>
    /\ callback # None

(***************************************************************************)
(* C12: the log slot holds at most one message, and with no callback       *)
(* registered every message that passes validation and filtering, a        *)
(* synthesized error message included, is the occupant of the slot after   *)
(* the call, whatever the slot held before.                                *)
(***************************************************************************)
\* the tuple of the message insert_api_error makes of an error code
ErrorTuple(code) ==
    [source |-> DEBUG_SOURCE_API, ty |-> DEBUG_TYPE_ERROR, id |-> code,
     severity |-> DEBUG_SEVERITY_HIGH]

C12_AtMostOne == Len(last_debug_message) <= 1

C12_Step ==
    /\ (/\ callback = None
        /\ InsertedValid(last_call')
        /\ Decision(rules, last_call'.msg))
       => /\ last_debug_message' # None
          /\ SameTuple(last_debug_message'[1], last_call'.msg)
          /\ last_debug_message'[1].buf = last_call'.msg.buf
    /\ (/\ callback = None
        /\ SynthesizesError(last_call')
        /\ Decision(rules, ErrorTuple(last_error')))
       => /\ last_debug_message' # None
          /\ SameTuple(last_debug_message'[1], ErrorTuple(last_error'))
          /\ last_debug_message'[1].buf.kind \in { "literal", "temp" }

C12_OneSlotOverwritten == [](C12_AtMostOne) /\ [][C12_Step]_vars

\* a valid message took the place of a synthesized error message in the slot
C12_Witness ==
    /\ callback = None
    /\ InsertedValid(last_call)
    /\ last_call.found # None
    /\ last_call.found[1].source = DEBUG_SOURCE_API
    /\ last_call.found[1].buf # last_call.msg.buf
    /\ InLog(last_call.msg)

(***************************************************************************)
(* C13: in every reachable state the message in the log slot, and every    *)
(* message handed to the callback by the last call, has a recognized       *)
(* source, type and severity and a length of at most 256.                  *)
(***************************************************************************)
C13_Valid(m) ==
    /\ m.source \in Sources
    /\ m.ty \in Types
    /\ m.severity \in Severities
    /\ m.length <= 256
    /\ EffectiveLength(m) <= 256

C13_MessagesValid ==
    /\ last_debug_message # None => C13_Valid(last_debug_message[1])
    /\ \A i \in 1..Len(dispatched) : C13_Valid(dispatched[i])

\* a message of exactly 256 chars, inserted with the sentinel, was dispatched
C13_Witness ==
    /\ IsInsert(last_call)
    /\ last_call.msg.length < 0
    /\ Len(dispatched) = 1
    /\ dispatched[1].length = 256
    /\ dispatched[1].buf = last_call.msg.buf

(***************************************************************************)
(* C14: controlMessages with a non-empty id list and a wildcard source, a  *)
(* wildcard type or a concrete severity sets lastError to                  *)
(* invalid-operation and still appends the rule; the rule then decides the *)
(* filtering of the messages it is the newest applicable rule for.         *)
(***************************************************************************)
\* r has ids and a wildcard source, a wildcard type or a concrete severity
Malformed(r) ==
    /\ r.ids # << >>
    /\ (r.source = DONT_CARE \/ r.ty = DONT_CARE \/ r.severity # DONT_CARE)

C14_Step ==
    (/\ last_call'.op = "fallback_debug_message_control"
     /\ Malformed(last_call'))
    => /\ last_error' = INVALID_OPERATION
       /\ rules' = Append(rules,
              [source |-> last_call'.source, ty |-> last_call'.ty,
               severity |-> last_call'.severity, enabled |-> last_call'.enabled,
               debug_group |-> debug_group_number, ids |-> last_call'.ids])

C14_Tuples ==
    [source : { DEBUG_SOURCE_WINDOW_SYSTEM, DEBUG_SOURCE_API, DEBUG_SOURCE_APPLICATION },
     ty : { DEBUG_TYPE_OTHER, DEBUG_TYPE_MARKER },
     id : { "id 1", "id 2" },
     severity : { DEBUG_SEVERITY_HIGH, DEBUG_SEVERITY_LOW }]

C14_Filtering ==
    /\ \A t \in C14_Tuples :
         LET app == Applicable(rules, t)
         IN  (app # {} /\ Malformed(rules[SetMax(app)])) =>
                 (Decision(rules, t) <=> rules[SetMax(app)].enabled = 1)
    /\ InsertedValid(last_call) =>
         LET app == Applicable(rules, last_call.msg)
         IN  (app # {} /\ Malformed(rules[SetMax(app)])) =>
                 DeliveredAs(rules[SetMax(app)].enabled = 1)

C14_MalformedRuleRegistered == [](C14_Filtering) /\ [][C14_Step]_vars

\* a high message, delivered by default, was dropped by a malformed rule whose
\* registration error is still recorded
C14_Witness ==
    /\ InsertedValid(last_call)
    /\ last_call.msg.severity = DEBUG_SEVERITY_HIGH
    /\ Applicable(rules, last_call.msg) # {}
    /\ Malformed(rules[SetMax(Applicable(rules, last_call.msg))])
    /\ rules[SetMax(Applicable(rules, last_call.msg))].enabled = 0
    /\ last_error = INVALID_OPERATION
    /\ callback # None
    /\ dispatched = << >>

(***************************************************************************)
(* The load universe: every driver, given by the symbols it resolves, and  *)
(* the wrappers of the five debug-output commands called on the struct     *)
(* loaded from it.                                                         *)
(***************************************************************************)
LoadSymbols ==
    { "glDebugMessageCallback", "glDebugMessageCallbackARB", "glDebugMessageCallbackKHR",
      "glDebugMessageInsert", "glDebugMessageControl", "glGetDebugMessageLog",
      "glGetError" }

InitLoad == \E loadfn \in SUBSET LoadSymbols : InitWith(loadfn \cup { "glDrawArrays" })

NextLoad ==
    \/ \E e \in { NO_ERROR, INVALID_OPERATION } :
            DebugMessageCallback("callback 1", "context 1", e)
    \/ \E source \in { DEBUG_SOURCE_APPLICATION, DEBUG_SOURCE_WINDOW_SYSTEM },
          e \in { NO_ERROR, INVALID_OPERATION } :
            DebugMessageInsert(source, DEBUG_TYPE_OTHER, "id 1", DEBUG_SEVERITY_HIGH,
                               3, UserBuf(3), e)
    \/ \E original \in { NO_ERROR, OUT_OF_MEMORY } : GetErrorWrapper(original, NO_ERROR)
    \/ \E e \in { NO_ERROR, INVALID_OPERATION } : DebugMessageControl(e)
    \/ \E e \in { NO_ERROR, INVALID_OPERATION } : GetDebugMessageLog(e)

SpecLoad == InitLoad /\ [][NextLoad]_vars

(***************************************************************************)
(* C15: when the driver resolves none of the debug-output symbols, each of *)
(* insert-message, control-messages, callback-registration,                *)
(* read-message-log and get-error is routed to its emulation entry point;  *)
(* when it resolves them all, each is routed to the native symbol.         *)
(***************************************************************************)
DebugCommands ==
    { "glDebugMessageCallback", "glDebugMessageInsert", "glDebugMessageControl",
      "glGetDebugMessageLog" }

LogicalFunctions == DebugCommands \cup { "glGetError" }

EmulationEntry(c) ==
    CASE c = "glDebugMessageCallback" -> "fallback_debug_message_callback"
      [] c = "glDebugMessageInsert" -> "fallback_debug_message_insert"
      [] c = "glDebugMessageControl" -> "fallback_debug_message_control"
      [] c = "glGetDebugMessageLog" -> "fallback_get_debug_message_log"
      [] c = "glGetError" -> "fallback_get_error"

\* the native function the loader found for field p, or null
NativeSymbol(p) ==
    IF p.kind = "FnPtr" THEN (IF p.is_loaded THEN p.f ELSE "null") ELSE p.original

ExtensionAbsent == \A c \in DebugCommands : NativeSymbol(fnptrs[c]) = "null"

ExtensionPresent == \A c \in DebugCommands : NativeSymbol(fnptrs[c]) # "null"

C15_Routing ==
    /\ ExtensionAbsent =>
         /\ \A c \in LogicalFunctions : Target(fnptrs[c]) = EmulationEntry(c)
         /\ last_call.op \in LogicalFunctions =>
                last_call.target = EmulationEntry(last_call.op)
    /\ ExtensionPresent =>
         /\ \A c \in LogicalFunctions : Target(fnptrs[c]) = NativeSymbol(fnptrs[c])
         /\ last_call.op \in LogicalFunctions =>
                last_call.target = NativeSymbol(fnptrs[last_call.op])

(***************************************************************************)
(* C16: the error interceptor queries the native error indicator exactly   *)
(* once per intercepted call; when it reports a code E other than          *)
(* no-error, lastError becomes E and a message with source API, type       *)
(* error, severity high and id E goes through the pipeline: dispatched or  *)
(* stored when filtering allows it, dropped otherwise.  When it reports    *)
(* no error, nothing changes.                                              *)
(***************************************************************************)
C16_Fed(t) ==
    IF ~Decision(rules, t)
    THEN /\ dispatched' = << >>
         /\ last_debug_message' = last_debug_message
    ELSE IF callback # None
    THEN /\ Len(dispatched') = 1
         /\ SameTuple(dispatched'[1], t)
         /\ dispatched'[1].callback = callback[1]
         /\ dispatched'[1].user_param = user_param
         /\ last_debug_message' = last_debug_message
    ELSE /\ dispatched' = << >>
         /\ last_debug_message' # None
         /\ SameTuple(last_debug_message'[1], t)

C16_Step ==
    last_call'.op = "on_fn_called" =>
        /\ last_call'.queries = 1
        /\ fault' = "none"
        /\ IF last_call'.current_error = NO_ERROR
           THEN StateUnchanged
           ELSE /\ last_error' = last_call'.current_error
                /\ C16_Fed(ErrorTuple(last_call'.current_error))
                /\ UNCHANGED << rules, callback, user_param, enabled >>

C16_NativeErrorIntercepted == [][C16_Step]_vars

\* a native error code without a phrase of its own was recorded and dispatched
C16_Witness ==
    /\ last_call.op = "on_fn_called"
    /\ last_call.current_error = STACK_OVERFLOW
    /\ last_call.queries = 1
    /\ last_error = STACK_OVERFLOW
    /\ Len(dispatched) = 1
    /\ dispatched[1].id = STACK_OVERFLOW
    /\ dispatched[1].source = DEBUG_SOURCE_API
    /\ dispatched[1].ty = DEBUG_TYPE_ERROR
    /\ dispatched[1].severity = DEBUG_SEVERITY_HIGH

(***************************************************************************)
(* C17: a synthetic error is recorded as lastError whether or not its      *)
(* message is delivered: when the rules suppress the API/error/high        *)
(* message nothing is dispatched or stored, lastError still holds the      *)
(* error code, and a getLastError that follows with no native error        *)
(* returns it.                                                             *)
(***************************************************************************)
\* the error code the call reports
ExpectedError(c) ==
    CASE c.op = "on_fn_called" -> c.current_error
      [] c.op = "fallback_debug_message_control" -> INVALID_OPERATION
      [] c.op = "fallback_get_debug_message_log" -> INVALID_VALUE
      [] IsInsert(c) -> IF EnumsValid(c) THEN INVALID_VALUE ELSE INVALID_ENUM

C17_Step ==
    /\ SynthesizesError(last_call') =>
         /\ last_error' = ExpectedError(last_call')
         /\ ~Decision(rules, ErrorTuple(ExpectedError(last_call'))) =>
                /\ dispatched' = << >>
                /\ last_debug_message' = last_debug_message
    /\ (/\ SynthesizesError(last_call)
        /\ last_call'.op = "fallback_get_error"
        /\ last_call'.original = NO_ERROR)
       => last_call'.ret = ExpectedError(last_call)

C17_ErrorRecordedWhenSuppressed == [][C17_Step]_vars

\* with a callback registered, a native error was recorded while a rule
\* silenced its message
C17_Witness ==
    /\ last_call.op = "on_fn_called"
    /\ last_call.current_error = INVALID_OPERATION
    /\ ~Decision(rules, ErrorTuple(INVALID_OPERATION))
    /\ callback # None
    /\ dispatched = << >>
    /\ last_error = INVALID_OPERATION

(***************************************************************************)
(* C18: insertMessage with an unrecognized severity, type or source sets   *)
(* lastError to invalid-enum and reports the first of the three, in that   *)
(* order, that is unrecognized; the offending message is neither stored    *)
(* nor dispatched, and no later step runs for it: no second error is       *)
(* reported, whatever its length.                                          *)
(***************************************************************************)
\* the call reaches the validation of the three enumerants
C18_Validated(c) ==
    \/ c.op = "debug_message_insert_internal"
    \/ /\ c.op = "fallback_debug_message_insert"
       /\ c.msg.source \in { DEBUG_SOURCE_APPLICATION, DEBUG_SOURCE_THIRD_PARTY }

C18_FirstInvalid(m) ==
    IF m.severity \notin Severities THEN "invalid enum in glDebugMessageInsert: severity is invalid"
    ELSE IF m.ty \notin Types THEN "invalid enum in glDebugMessageInsert: type is invalid"
    ELSE "invalid enum in glDebugMessageInsert: source is invalid"

C18_Reported(text) ==
    IF ~Decision(rules, ErrorTuple(INVALID_ENUM))
    THEN /\ dispatched' = << >>
         /\ last_debug_message' = last_debug_message
    ELSE IF callback # None
    THEN /\ Len(dispatched') = 1
         /\ dispatched'[1].id = INVALID_ENUM
         /\ dispatched'[1].buf.text = text
         /\ last_debug_message' = last_debug_message
    ELSE /\ dispatched' = << >>
         /\ last_debug_message' # None
         /\ last_debug_message'[1].id = INVALID_ENUM
         /\ last_debug_message'[1].buf.text = text

C18_Step ==
    (/\ C18_Validated(last_call')
     /\ \/ last_call'.msg.severity \notin Severities
        \/ last_call'.msg.ty \notin Types
        \/ last_call'.msg.source \notin Sources)
    => /\ last_error' = INVALID_ENUM
       /\ NotDelivered(last_call'.msg)
       /\ C18_Reported(C18_FirstInvalid(last_call'.msg))

C18_InvalidEnumRejected == [][C18_Step]_vars

\* a message with a wrong type and a wrong source, and too long, was reported
\* for its type
C18_Witness ==
    /\ last_call.op = "debug_message_insert_internal"
    /\ last_call.msg.severity \in Severities
    /\ last_call.msg.ty \notin Types
    /\ last_call.msg.source \notin Sources
    /\ EffectiveLength(last_call.msg) > 256
    /\ last_error = INVALID_ENUM
    /\ last_debug_message # None
    /\ last_debug_message[1].buf.text = "invalid enum in glDebugMessageInsert: type is invalid"

(***************************************************************************)
(* C19: a valid message for which shouldProcess is false is dropped:       *)
(* insertMessage invokes no callback and leaves the log slot, lastError,   *)
(* the rule list and the callback registration as they were.               *)
(***************************************************************************)
C19_Step ==
    (InsertedValid(last_call') /\ ~Decision(rules, last_call'.msg)) =>
        /\ StateUnchanged
        /\ fault' = "none"

C19_FilteredDropped == [][C19_Step]_vars

\* a high message was dropped by a rule, over an occupied log slot, a recorded
\* error and a registered callback
C19_Witness ==
    /\ InsertedValid(last_call)
    /\ last_call.msg.severity = DEBUG_SEVERITY_HIGH
    /\ ~Decision(rules, last_call.msg)
    /\ callback # None
    /\ dispatched = << >>
    /\ last_error # NO_ERROR
    /\ last_debug_message # None
    /\ last_debug_message = last_call.found

(***************************************************************************)
(* C20: the rule list is append-only and insertion-ordered: every          *)
(* controlMessages call appends exactly one rule at the end, tagged with   *)
(* the debug group number current at the call, and no other operation      *)
(* removes, reorders or modifies a registered rule.                        *)
(***************************************************************************)
C20_Step ==
    IF last_call'.op = "fallback_debug_message_control"
    THEN /\ Len(rules') = Len(rules) + 1
         /\ SubSeq(rules', 1, Len(rules)) = rules
         /\ rules'[Len(rules')] =
                [source |-> last_call'.source, ty |-> last_call'.ty,
                 severity |-> last_call'.severity, enabled |-> last_call'.enabled,
                 debug_group |-> debug_group_number, ids |-> last_call'.ids]
    ELSE rules' = rules

C20_RulesAppendOnly == [][C20_Step]_vars

\* two different rules, the well-formed one registered after the malformed one,
\* are still there after a read of the log that reported an error
C20_Witness ==
    /\ Len(rules) = 2
    /\ Malformed(rules[1])
    /\ ~Malformed(rules[2])
    /\ rules[1].debug_group = debug_group_number
    /\ rules[2].debug_group = debug_group_number
    /\ IsRead(last_call)
    /\ last_call.bufsize < 0
    /\ last_error = INVALID_VALUE

(***************************************************************************)
(* C21: drainLog with a negative bufferCapacity and a text buffer sets     *)
(* lastError to invalid-value and returns 0, for every maxCount, 0         *)
(* included.                                                               *)
(***************************************************************************)
C21_Step ==
    (/\ IsRead(last_call')
     /\ last_call'.bufsize < 0
     /\ last_call'.message_log)
    => /\ last_call'.ret = 0
       /\ last_error' = INVALID_VALUE
       /\ fault' = "none"

C21_NegativeCapacityRejected == [][C21_Step]_vars

\* a read of no messages was rejected for its capacity, over another error
C21_Witness ==
    /\ IsRead(last_call)
    /\ last_call.count = 0
    /\ last_call.bufsize < 0
    /\ last_call.message_log
    /\ last_call.ret = 0
    /\ last_error = INVALID_VALUE
    /\ last_call.found # None
    /\ last_call.found[1].id = INVALID_OPERATION

(***************************************************************************)
(* C22: every insertMessage, insertUserMessage, controlMessages, drainLog  *)
(* and error-interceptor call makes one nested synthesis of an error       *)
(* message when it detects a problem and none otherwise: the synthesized   *)
(* message has a recognized source, type and severity and at most 256      *)
(* chars, so that its own insertion reports nothing.                       *)
(***************************************************************************)
\* synthesized counts the calls of insert_api_error made by the last call,
\* each one nested in the one before: it bounds the depth of the recursion
\* of insert_api_error and debug_message_insert_internal.
C22_SelfReportTerminates ==
    /\ synthesized <= 1
    /\ last_call.op # "load_with" =>
           (synthesized = 1 <=> SynthesizesError(last_call))
    /\ synthesized = 1 =>
           /\ Len(dispatched) <= 1
           /\ \A i \in 1..Len(dispatched) :
                /\ SameTuple(dispatched[i], ErrorTuple(last_error))
                /\ dispatched[i].length <= 256
    /\ ~IsRead(last_call) => fault = "none"

\* an over-long message was reported by one synthesized message, dispatched
C22_Witness ==
    /\ IsInsert(last_call)
    /\ EffectiveLength(last_call.msg) > 256
    /\ synthesized = 1
    /\ last_error = INVALID_VALUE
    /\ Len(dispatched) = 1
    /\ dispatched[1].id = INVALID_VALUE
    /\ dispatched[1].length <= 256

(***************************************************************************)
(* C23: once a callback is registered the state never returns to "no       *)
(* callback", and from then on no call other than a drain changes the log  *)
(* slot: a message already there stays and no message is stored.  A        *)
(* registration, the first or a later one, sets the callback and the user  *)
(* context to the two values it was given.                                 *)
(***************************************************************************)
C23_Step ==
    /\ callback # None => callback' # None
    /\ (callback # None /\ ~IsRead(last_call')) =>
           last_debug_message' = last_debug_message
    /\ last_call'.op = "fallback_debug_message_callback" =>
           /\ callback' = Some(last_call'.callback)
           /\ user_param' = last_call'.user_param

C23_RegistrationPermanent == [][C23_Step]_vars

\* a message stored before the registration is still in the slot after an
\* insertion that went to the second callback with the second context
C23_Witness ==
    /\ callback = Some("callback 2")
    /\ user_param = "context 2"
    /\ last_debug_message # None
    /\ IsInsert(last_call)
    /\ Len(dispatched) = 1
    /\ dispatched[1].user_param = "context 2"
    /\ ~SameTuple(dispatched[1], last_debug_message[1])

(***************************************************************************)
(* Re-entry from the callback.  The emulation state lives in a RefCell     *)
(* (debug_struct_gen.rs:170); debug_message_insert_internal takes          *)
(* borrow_mut() at impl.rs:99 and the borrow is alive while the callback   *)
(* runs (impl.rs:102-104).  A callback that calls an entry point of the    *)
(* same struct makes that entry point borrow the cell again.               *)
(***************************************************************************)
\* the state of the RefCell while the callback runs
dispatch_borrow == "WRITING"

\* the first access an entry point makes to the RefCell, None if it makes none
first_borrow(c) ==
    CASE c.op = "fallback_get_error" ->
            IF c.original = NO_ERROR THEN Some("borrow") ELSE Some("borrow_mut")
      [] c.op = "fallback_debug_message_insert" -> Some("borrow")
      [] c.op = "fallback_debug_message_callback" -> Some("borrow_mut")
      [] c.op = "on_fn_called" ->
            IF c.current_error = NO_ERROR THEN None ELSE Some("borrow_mut")

\* RefCell::borrow and RefCell::borrow_mut panic on a conflicting borrow
already_borrowed(flag, access) ==
    \/ access = "borrow" /\ flag = "WRITING"
    \/ access = "borrow_mut" /\ flag # "UNUSED"

\* the entry point c called with the RefCell in state flag
reenter(st, flag, c) ==
    IF first_borrow(c) # None /\ already_borrowed(flag, first_borrow(c)[1])
    THEN [st |-> st, fault |-> "panic"]
    ELSE [st |-> CASE c.op = "fallback_get_error" ->
                        fallback_get_error(st, c.original).st
                   [] c.op = "fallback_debug_message_insert" ->
                        fallback_debug_message_insert(st, c.msg.source, c.msg.ty, c.msg.id,
                            c.msg.severity, c.msg.length, c.msg.buf)
                   [] c.op = "fallback_debug_message_callback" ->
                        fallback_debug_message_callback(st, c.callback, c.user_param)
                   [] c.op = "on_fn_called" ->
                        on_fn_called(st, c.current_error, c.name),
          fault |-> "none"]

\* an insertion that reaches the callback, whose body makes the call c
InsertMessageReentered(source, ty, id, severity, length, buf, c) ==
    /\ fault = "none"
    /\ LET st == debug_message_insert_internal(State, source, ty, id, severity, length, buf)
       IN  /\ Len(st.calls) = 1
           /\ st.api_errors = 0
           /\ LET r == reenter(st, dispatch_borrow, c)
              IN  Commit(r.st, r.fault,
                         [op |-> "debug_message_insert_internal",
                          msg |-> Message(source, ty, id, severity, length, buf),
                          found |-> last_debug_message,
                          reenters |-> c])

ReentrantCalls ==
    { [op |-> "fallback_get_error", original |-> e] : e \in { NO_ERROR, OUT_OF_MEMORY } }
    \cup { [op |-> "fallback_debug_message_insert", msg |-> m] : m \in LogUserMsgs }
    \cup { [op |-> "fallback_debug_message_callback", callback |-> "callback 1",
            user_param |-> "context 1"] }
    \cup { [op |-> "on_fn_called", current_error |-> e, name |-> "glDrawArrays"] :
             e \in { NO_ERROR, INVALID_OPERATION } }

NextReenter ==
    \/ NextLog
    \/ \E m \in LogMsgs, c \in ReentrantCalls :
           InsertMessageReentered(m.source, m.ty, m.id, m.severity, m.length, m.buf, c)

SpecReenter == Init /\ [][NextReenter]_vars

(***************************************************************************)
(* C24: a callback that re-enters the emulation during its dispatch        *)
(* (getLastError, insertUserMessage, callback registration, an intercepted *)
(* call whose native error is not NO_ERROR) completes normally: the        *)
(* process is alive after the insertion that dispatched to it.             *)
(***************************************************************************)
C24_Reenters(c) ==
    /\ c.op = "debug_message_insert_internal"
    /\ "reenters" \in DOMAIN c

C24_ReentryCompletes ==
    [][C24_Reenters(last_call') => fault' = "none"]_vars

\* the one re-entry that completes: an intercepted call without a native error
C24_OnlyErrorFreeInterceptCompletes ==
    [][C24_Reenters(last_call') =>
         (fault' = "none" <=> /\ last_call'.reenters.op = "on_fn_called"
                              /\ last_call'.reenters.current_error = NO_ERROR)]_vars

(***************************************************************************)
(* C25: a drainLog call rejected for a negative bufferCapacity, made with  *)
(* no callback registered and a message pending in the log slot, returns 0 *)
(* and hands its invalid-value error message to the dispatch path: the     *)
(* error message replaces the pending message, unless the rules filter the *)
(* error message out, in which case the pending message stays.             *)
(***************************************************************************)
C25_Case ==
    /\ IsRead(last_call')
    /\ last_call'.bufsize < 0
    /\ last_call'.message_log
    /\ callback = None
    /\ last_debug_message # None

C25_Step ==
    C25_Case =>
        /\ last_call'.ret = 0
        /\ last_call'.found = last_debug_message
        /\ IF Decision(rules, ErrorTuple(INVALID_VALUE))
           THEN /\ last_debug_message' # None
                /\ SameTuple(last_debug_message'[1], ErrorTuple(INVALID_VALUE))
                /\ last_debug_message'[1].buf = MSG_LOG_BUFSIZE
           ELSE last_debug_message' = last_debug_message

C25_RejectedDrainReplacesPending == [][C25_Step]_vars

\* the claim as stated: the pending message survives the rejected call
C25_RejectedDrainKeepsPending ==
    [][C25_Case => last_debug_message' = last_debug_message]_vars

\* a pending application message was replaced by the error message of the
\* rejected call
C25_Witness ==
    /\ IsRead(last_call)
    /\ last_call.bufsize < 0
    /\ last_call.message_log
    /\ last_call.count = 1
    /\ callback = None
    /\ last_call.found # None
    /\ last_call.found[1].source = DEBUG_SOURCE_APPLICATION
    /\ last_debug_message # None
    /\ last_debug_message[1].id = INVALID_VALUE
    /\ last_debug_message[1].source = DEBUG_SOURCE_API

=============================================================================
